---- MODULE Spec2Model ----
(***************************************************************************)
(* Model of the meeting page controller (MeetingPage, Index.tsx) and of    *)
(* the insight state held by MeetingWorkspace (MeetingWorkspace.tsx).      *)
(*                                                                         *)
(* One step of the model is one task of the browser event loop: a click    *)
(* handler run up to its first await, the continuation of startScreenShare *)
(* after getDisplayMedia settles, or the onended callback of a video       *)
(* track.  Click handlers read the state of the latest render; the onended *)
(* callback runs the stopScreenShare of the render in which the            *)
(* acquisition was requested, so it reads the `stream` of that render.     *)
(***************************************************************************)
EXTENDS Integers, Sequences, FiniteSets

\* Number of getDisplayMedia requests one behaviour may issue.
MaxAcq == 2

\* useState<MediaStream | null>(null): the absent stream.
NoStream == 0

\* useState<Phi3InsightsType | null>(null): no inference result.
NoInsights == 0

AcqIds == 1..MaxAcq

TrackKinds == {"video", "audio"}

VARIABLES
    isCallActive,     \* useState(false)
    isMicOn,          \* useState(false)
    isVideoOn,        \* useState(false)
    isScreenSharing,  \* useState(false)
    stream,           \* held MediaStream (an acquisition id) or NoStream
    nextId,           \* id the next getDisplayMedia request gets
    acqState,         \* per request: "unused", "pending", "resolved", "rejected"
    captured,         \* per request: `stream` of the render that issued it
    caller,           \* per request: handler awaiting it
    liveTracks,       \* per stream: kinds of its tracks with readyState "live"
    wsRequest,        \* last request made to the transcription client
    lastEffects,      \* collaborator calls made by the last handler, in order
    lastOp,           \* last handler run and the stream or request it acted on
    uncaught,         \* an exception left a handler uncaught
    phi3Insights,     \* MeetingWorkspace: call number of the held result, or NoInsights
    callsStarted,     \* number of calls started on this page instance
    ended,            \* a call of this page instance has been stopped
    osEnded,          \* a video track has ended outside the app
    phi3Result,       \* MeetingWorkspace: the phi3Insights value being rendered
    rendered,         \* MeetingWorkspace has rendered phi3Result
    clientInterest    \* interestLevel passed to ClientInterestBar

vars == <<isCallActive, isMicOn, isVideoOn, isScreenSharing, stream, nextId,
          acqState, captured, caller, liveTracks, wsRequest, lastEffects,
          lastOp, uncaught, phi3Insights, callsStarted, ended,
          osEnded, phi3Result, rendered, clientInterest>>

\* What a render of MeetingWorkspace reads and derives.
renderVars == <<phi3Result, rendered, clientInterest>>

Op(name, id) == [op |-> name, id |-> id]

\* MeetingPage after its first render.
ControllerInit ==
    /\ isCallActive = FALSE
    /\ isMicOn = FALSE
    /\ isVideoOn = FALSE
    /\ isScreenSharing = FALSE
    /\ stream = NoStream
    /\ nextId = 1
    /\ acqState = [i \in AcqIds |-> "unused"]
    /\ captured = [i \in AcqIds |-> NoStream]
    /\ caller = [i \in AcqIds |-> "none"]
    /\ liveTracks = [i \in AcqIds |-> {}]
    /\ wsRequest = "none"
    /\ lastEffects = <<>>
    /\ lastOp = Op("init", NoStream)
    /\ uncaught = FALSE
    /\ phi3Insights = NoInsights
    /\ callsStarted = 0
    /\ ended = FALSE
    /\ osEnded = FALSE

\* The `|| 75` fallback of clientInterest.
DefaultInterest == 75

\* Emotions a phi3 result may carry: "Interest" at every level of 0..100,
\* and other emotions at the sample levels of Index.tsx.
EmotionEntries ==
    [emotion : {"Interest"}, level : 0..100]
        \cup {[emotion |-> "Confusion", level |-> 25],
              [emotion |-> "Satisfaction", level |-> 60]}

\* Longest emotions array of a result.
MaxEmotions == 2

EmotionLists ==
    UNION {[1..n -> EmotionEntries] : n \in 0..MaxEmotions}

\* useState<Phi3InsightsType | null>(null), as far as clientInterest reads it.
NoResult == [present |-> FALSE, emotions |-> <<>>]

Phi3Results ==
    {NoResult} \cup [present : {TRUE}, emotions : EmotionLists]

Init ==
    /\ ControllerInit
    /\ phi3Result = NoResult
    /\ rendered = FALSE
    /\ clientInterest = DefaultInterest

(***************************************************************************)
(* stopScreenShare                                                         *)
(***************************************************************************)

\* if (stream) stream.getTracks().forEach(track => track.stop()), with
\* `s` the stream of the closure that runs.
StopTracks_videoOnly(lt, s) ==
    IF s = NoStream THEN lt ELSE [lt EXCEPT ![s] = lt[s] \ {"video"}]

StopTracks(lt, s) ==
    IF s = NoStream THEN lt ELSE [lt EXCEPT ![s] = {}]

\* Variants of stopScreenShare: state cleared only when the closure holds a
\* stream; flag left as it was.
stopScreenShare_guarded(s) ==
    IF s = NoStream
    THEN [stream |-> stream, isScreenSharing |-> isScreenSharing,
          liveTracks |-> liveTracks]
    ELSE [stream |-> NoStream, isScreenSharing |-> FALSE,
          liveTracks |-> StopTracks(liveTracks, s)]

stopScreenShare_keepsFlag(s) ==
    [stream |-> NoStream, isScreenSharing |-> isScreenSharing,
     liveTracks |-> StopTracks(liveTracks, s)]

\* stopScreenShare run from a closure whose `stream` is s: the values of
\* the held stream, the flag and the tracks afterwards.
stopScreenShare(s) ==
    [stream |-> NoStream, isScreenSharing |-> FALSE,
     liveTracks |-> StopTracks(liveTracks, s)]

(***************************************************************************)
(* startScreenShare                                                        *)
(***************************************************************************)

\* startScreenShare up to its await: getDisplayMedia is requested from the
\* current render by handler c.
RequestCapture(c) ==
    /\ nextId <= MaxAcq
    /\ acqState' = [acqState EXCEPT ![nextId] = "pending"]
    /\ captured' = [captured EXCEPT ![nextId] = stream]
    /\ caller' = [caller EXCEPT ![nextId] = c]
    /\ nextId' = nextId + 1

\* Both callers of startScreenShare await it inside try/catch.
CaughtBy_toggleOnly(c) == c = "toggleScreenShare"

CaughtBy(c) == c \in {"toggleCall", "toggleScreenShare"}

\* getDisplayMedia resolves: setStream(screenStream), setIsScreenSharing(true),
\* onended registered on the first video track.
AcquireResolve(id) ==
    /\ acqState[id] = "pending"
    /\ \E kinds \in {{"video"}, {"video", "audio"}} :
          liveTracks' = [liveTracks EXCEPT ![id] = kinds]
    /\ acqState' = [acqState EXCEPT ![id] = "resolved"]
    /\ stream' = id
    /\ isScreenSharing' = TRUE
    /\ lastEffects' = <<>>
    /\ lastOp' = Op("acquireResolve", id)
    /\ UNCHANGED <<isCallActive, isMicOn, isVideoOn, nextId, captured, caller,
                   wsRequest, uncaught, phi3Insights, callsStarted, ended,
                   osEnded, renderVars>>

\* getDisplayMedia rejects: startScreenShare logs and rethrows to its caller.
AcquireReject(id) ==
    /\ acqState[id] = "pending"
    /\ acqState' = [acqState EXCEPT ![id] = "rejected"]
    /\ uncaught' = (uncaught \/ ~CaughtBy(caller[id]))
    /\ lastEffects' = <<>>
    /\ lastOp' = Op("acquireReject", id)
    /\ UNCHANGED <<isCallActive, isMicOn, isVideoOn, isScreenSharing, stream,
                   nextId, captured, caller, liveTracks, wsRequest,
                   phi3Insights, callsStarted, ended,
                   osEnded, renderVars>>

\* The video track of a resolved stream ends outside the app; the browser
\* may end the other tracks of the capture with it.  onended then runs the
\* stopScreenShare of the render that requested the capture.
TrackEnded(id) ==
    /\ acqState[id] = "resolved"
    /\ "video" \in liveTracks[id]
    /\ \E rest \in {liveTracks[id] \ {"video"}, {}} :
          LET r == stopScreenShare(captured[id])
          IN  /\ stream' = r.stream
              /\ isScreenSharing' = r.isScreenSharing
              /\ liveTracks' = [r.liveTracks EXCEPT ![id] = rest]
    /\ lastEffects' = <<>>
    /\ lastOp' = Op("trackEnded", id)
    /\ osEnded' = TRUE
    /\ UNCHANGED <<isCallActive, isMicOn, isVideoOn, nextId, acqState,
                   captured, caller, wsRequest, uncaught, phi3Insights,
                   callsStarted, ended, renderVars>>

(***************************************************************************)
(* Click handlers                                                          *)
(***************************************************************************)

toggleCallFlags_micUntouched(active, mic, video) ==
    IF active
    THEN [isCallActive |-> FALSE, isMicOn |-> FALSE, isVideoOn |-> FALSE]
    ELSE [isCallActive |-> TRUE, isMicOn |-> mic, isVideoOn |-> video]

\* The flags toggleCall sets in its two branches.
toggleCallFlags(active, mic, video) ==
    IF active
    THEN [isCallActive |-> FALSE, isMicOn |-> FALSE, isVideoOn |-> FALSE]
    ELSE [isCallActive |-> TRUE, isMicOn |-> TRUE, isVideoOn |-> video]

\* toggleCall, isCallActive branch.
ToggleCallStop ==
    /\ isCallActive
    /\ LET f == toggleCallFlags(isCallActive, isMicOn, isVideoOn)
           r == IF isScreenSharing
                THEN stopScreenShare(stream)
                ELSE [stream |-> stream, isScreenSharing |-> isScreenSharing,
                      liveTracks |-> liveTracks]
       IN  /\ isCallActive' = f.isCallActive
           /\ isMicOn' = f.isMicOn
           /\ isVideoOn' = f.isVideoOn
           /\ stream' = r.stream
           /\ isScreenSharing' = r.isScreenSharing
           /\ liveTracks' = r.liveTracks
    /\ wsRequest' = "disconnect"
    /\ lastEffects' = <<"disconnect">>
    /\ lastOp' = Op("callStop", IF isScreenSharing THEN stream ELSE NoStream)
    /\ ended' = TRUE
    /\ UNCHANGED <<nextId, acqState, captured, caller, uncaught, phi3Insights,
                   callsStarted,
                   osEnded, renderVars>>

\* toggleCall, else branch, up to the await inside startScreenShare.
ToggleCallStart ==
    /\ ~isCallActive
    /\ LET f == toggleCallFlags(isCallActive, isMicOn, isVideoOn)
       IN  /\ isCallActive' = f.isCallActive
           /\ isMicOn' = f.isMicOn
           /\ isVideoOn' = f.isVideoOn
    /\ wsRequest' = "connect"
    /\ RequestCapture("toggleCall")
    /\ lastEffects' = <<"connect", "getDisplayMedia">>
    /\ lastOp' = Op("callStart", nextId)
    /\ callsStarted' = callsStarted + 1
    /\ UNCHANGED <<isScreenSharing, stream, liveTracks, uncaught,
                   phi3Insights, ended,
                   osEnded, renderVars>>

ToggleMic ==
    /\ isMicOn' = ~isMicOn
    /\ lastEffects' = <<>>
    /\ lastOp' = Op("toggleMic", NoStream)
    /\ UNCHANGED <<isCallActive, isVideoOn, isScreenSharing, stream, nextId,
                   acqState, captured, caller, liveTracks, wsRequest,
                   uncaught, phi3Insights, callsStarted, ended,
                   osEnded, renderVars>>

ToggleVideo ==
    /\ isVideoOn' = ~isVideoOn
    /\ lastEffects' = <<>>
    /\ lastOp' = Op("toggleVideo", NoStream)
    /\ UNCHANGED <<isCallActive, isMicOn, isScreenSharing, stream, nextId,
                   acqState, captured, caller, liveTracks, wsRequest,
                   uncaught, phi3Insights, callsStarted, ended,
                   osEnded, renderVars>>

\* toggleScreenShare, isScreenSharing branch.
ToggleScreenShareStop ==
    /\ isScreenSharing
    /\ LET r == stopScreenShare(stream)
       IN  /\ stream' = r.stream
           /\ isScreenSharing' = r.isScreenSharing
           /\ liveTracks' = r.liveTracks
    /\ lastEffects' = <<>>
    /\ lastOp' = Op("shareStop", stream)
    /\ UNCHANGED <<isCallActive, isMicOn, isVideoOn, nextId, acqState,
                   captured, caller, wsRequest, uncaught, phi3Insights,
                   callsStarted, ended,
                   osEnded, renderVars>>

\* toggleScreenShare, else branch, up to the await inside startScreenShare.
ToggleScreenShareStart ==
    /\ ~isScreenSharing
    /\ RequestCapture("toggleScreenShare")
    /\ lastEffects' = <<"getDisplayMedia">>
    /\ lastOp' = Op("shareStart", nextId)
    /\ UNCHANGED <<isCallActive, isMicOn, isVideoOn, isScreenSharing, stream,
                   liveTracks, wsRequest, uncaught, phi3Insights,
                   callsStarted, ended,
                   osEnded, renderVars>>

(***************************************************************************)
(* MeetingWorkspace                                                        *)
(***************************************************************************)

\* Phi3Insights publishes a result through onInsightsUpdated
\* (setPhi3Insights) while a call feeds it transcript text.  The result is
\* tagged with the number of the call that produced it.
InsightsUpdated ==
    /\ isCallActive
    /\ phi3Insights' = callsStarted
    /\ lastEffects' = <<>>
    /\ lastOp' = Op("insightsUpdated", NoStream)
    /\ UNCHANGED <<isCallActive, isMicOn, isVideoOn, isScreenSharing, stream,
                   nextId, acqState, captured, caller, liveTracks, wsRequest,
                   uncaught, callsStarted, ended,
                   osEnded, renderVars>>

\* phi3Insights?.emotions?.find(e => e.emotion === "Interest")?.level,
\* as the set holding the level found, empty when the chain is undefined.
InterestLevel(r) ==
    LET hits == {i \in 1..Len(r.emotions) : r.emotions[i].emotion = "Interest"}
    IN  IF ~r.present \/ hits = {}
        THEN {}
        ELSE {r.emotions[CHOOSE i \in hits : \A j \in hits : i <= j].level}

\* v || d: d when v is undefined or falsy (the number 0), else v.
OrDefault(v, d) ==
    IF v = {} \/ v = {0} THEN d ELSE CHOOSE x \in v : TRUE

\* const clientInterest = ...?.level || 75
ClientInterest(r) == OrDefault(InterestLevel(r), DefaultInterest)

\* A render of MeetingWorkspace with phi3Result as its phi3Insights state.
Render ==
    /\ ~rendered
    /\ rendered' = TRUE
    /\ clientInterest' = ClientInterest(phi3Result)
    /\ UNCHANGED <<isCallActive, isMicOn, isVideoOn, isScreenSharing, stream,
                   nextId, acqState, captured, caller, liveTracks, wsRequest,
                   lastEffects, lastOp, uncaught, phi3Insights, callsStarted,
                   ended, osEnded, phi3Result>>

\* The workspace holding any phi3 result, before it renders.
InterestInit ==
    /\ ControllerInit
    /\ phi3Result \in Phi3Results
    /\ rendered = FALSE
    /\ clientInterest = DefaultInterest

InterestNext == Render

SpecInterest == InterestInit /\ [][InterestNext]_vars

Next ==
    \/ ToggleCallStart
    \/ ToggleCallStop
    \/ ToggleMic
    \/ ToggleVideo
    \/ ToggleScreenShareStart
    \/ ToggleScreenShareStop
    \/ \E id \in AcqIds : AcquireResolve(id)
    \/ \E id \in AcqIds : AcquireReject(id)
    \/ \E id \in AcqIds : TrackEnded(id)
    \/ InsightsUpdated

Spec == Init /\ [][Next]_vars

TypeOK ==
    /\ isCallActive \in BOOLEAN /\ isMicOn \in BOOLEAN
    /\ isVideoOn \in BOOLEAN /\ isScreenSharing \in BOOLEAN
    /\ stream \in AcqIds \cup {NoStream}
    /\ nextId \in 1..(MaxAcq + 1)
    /\ acqState \in [AcqIds -> {"unused", "pending", "resolved", "rejected"}]
    /\ captured \in [AcqIds -> AcqIds \cup {NoStream}]
    /\ liveTracks \in [AcqIds -> SUBSET TrackKinds]
    /\ wsRequest \in {"none", "connect", "disconnect"}
    /\ uncaught \in BOOLEAN
    /\ phi3Insights \in 0..MaxAcq
    /\ callsStarted \in 0..MaxAcq
    /\ ended \in BOOLEAN
    /\ osEnded \in BOOLEAN
(***************************************************************************)
(* Properties                                                              *)
(***************************************************************************)

LiveStreams == {i \in AcqIds : liveTracks[i] # {}}

\* C1: a capture requested by call start that resolves after the call was
\* stopped is released at once: its tracks are stopped, it is not held and
\* the screen-sharing flag stays false.
C1_LateStreamReleased ==
    (lastOp.op = "acquireResolve" /\ caller[lastOp.id] = "toggleCall"
        /\ ~isCallActive)
    => (liveTracks[lastOp.id] = {} /\ stream # lastOp.id /\ ~isScreenSharing)

\* C2: after any sequence of the toggles, call start and acquisitions (no
\* track ended outside the app), right after the call is stopped every
\* stream that was ever acquired has all of its tracks stopped.
C2_StopLeavesNoLiveStream ==
    (lastOp.op = "callStop" /\ ~osEnded) => LiveStreams = {}

\* C3: single owner: when an acquisition has resolved, the only stream with
\* live tracks is the one the controller holds.
C3_SingleOwner ==
    lastOp.op = "acquireResolve" => LiveStreams \subseteq {stream}

\* C4 (as stated): once a call of this page instance has been stopped, the
\* instance is never active again.
C4_NoReturnToActive ==
    ended => ~isCallActive

\* C4 (amended): the call-active flag changes only in toggleCall, and
\* toggleCall on an inactive instance, stopped before or not, makes it
\* active with the mic enabled and a connect request made.
C4_ToggleAlternates ==
    [][ /\ (isCallActive' # isCallActive
              => lastOp'.op \in {"callStart", "callStop"})
        /\ (lastOp'.op = "callStart"
              => (~isCallActive /\ isCallActive' /\ isMicOn'
                  /\ wsRequest' = "connect")) ]_vars

C4_Witness ==
    ended /\ isCallActive /\ lastOp.op = "callStart" /\ callsStarted = 2

\* C5: stopping an active call leaves the call inactive with mic and video
\* off, makes exactly one disconnect request, and stops every track of a
\* held stream and clears the held reference.
C5_StopTearsDown ==
    [][ lastOp'.op = "callStop"
        => /\ isCallActive /\ ~isCallActive' /\ ~isMicOn' /\ ~isVideoOn'
           /\ lastEffects' = <<"disconnect">>
           /\ wsRequest' = "disconnect"
           /\ (stream # NoStream
                 => (liveTracks'[stream] = {} /\ stream' = NoStream)) ]_vars

C5_Witness ==
    /\ lastOp.op = "callStop" /\ lastOp.id # NoStream
    /\ liveTracks[lastOp.id] = {} /\ stream = NoStream
    /\ ~isCallActive /\ ~isMicOn /\ ~isVideoOn /\ wsRequest = "disconnect"

\* C6: call start sets the call active, enables the mic and requests
\* connect before it requests the capture; a failed capture is caught by the
\* controller and changes none of the call, mic, connect, screen-sharing or
\* held-stream state, so a call started without a shared screen stays
\* active and unshared.
C6_StartAndFailure ==
    [][ /\ (lastOp'.op = "callStart"
              => /\ isCallActive' /\ isMicOn' /\ wsRequest' = "connect"
                 /\ lastEffects' = <<"connect", "getDisplayMedia">>
                 /\ acqState'[lastOp'.id] = "pending")
        /\ (lastOp'.op = "acquireReject"
              => /\ ~uncaught'
                 /\ UNCHANGED <<isCallActive, isMicOn, isVideoOn, wsRequest,
                                isScreenSharing, stream, liveTracks>>)
        /\ (lastOp.op = "callStart" /\ ~isScreenSharing
               /\ lastOp'.op = "acquireReject"
              => /\ isCallActive' /\ isMicOn' /\ wsRequest' = "connect"
                 /\ ~isScreenSharing' /\ stream' = NoStream) ]_vars

C6_Witness ==
    /\ lastOp.op = "acquireReject" /\ caller[lastOp.id] = "toggleCall"
    /\ isCallActive /\ isMicOn /\ wsRequest = "connect"
    /\ ~isScreenSharing /\ stream = NoStream

\* C7: when the video track of the held stream ends, the screen-sharing
\* flag becomes false and the held reference absent, and the call, mic and
\* video flags do not change.
C7_TrackEndedReconciles ==
    [][ (lastOp'.op = "trackEnded" /\ lastOp'.id = stream)
        => /\ ~isScreenSharing' /\ stream' = NoStream
           /\ UNCHANGED <<isCallActive, isMicOn, isVideoOn>> ]_vars

C7_Witness ==
    /\ lastOp.op = "trackEnded" /\ isCallActive
    /\ captured[lastOp.id] = NoStream
    /\ \A i \in AcqIds \ {lastOp.id} : acqState[i] # "resolved"
    /\ ~isScreenSharing /\ stream = NoStream

\* C8: insight data lives exactly as long as the call: while no call is
\* active the workspace holds no inference result.
C8_InsightsDiscardedAtCallEnd ==
    ~isCallActive => phi3Insights = NoInsights

\* C9: whenever the held reference is cleared, every track of the stream
\* that was held has been stopped.
C9_ClearedOnlyWhenStopped ==
    [][ (stream # NoStream /\ stream' = NoStream)
        => liveTracks'[stream] = {} ]_vars

\* C10: in every state between handlers the screen-sharing flag is true
\* exactly when a stream is held.
C10_FlagIffHeld ==
    isScreenSharing <=> stream # NoStream

C10_Witness ==
    /\ isScreenSharing /\ stream # NoStream
    /\ \E i \in AcqIds : acqState[i] = "resolved" /\ i # stream
    /\ \E i \in AcqIds : acqState[i] = "resolved" /\ liveTracks[i] = {}
\* C11: whenever the rendered result has an emotion named "Interest", the
\* client interest level equals the level of that emotion, for every level
\* in 0..100 including 0.
C11_InterestLevelUsed ==
    (rendered /\ InterestLevel(phi3Result) # {})
    => InterestLevel(phi3Result) = {clientInterest}
====
